---------------------------- MODULE Spec2Model ----------------------------
(***************************************************************************)
(* Model of the issue collaborative object of radicle-cli                  *)
(* (common/src/cobs/issue.rs): the mutation builders (mod events), the     *)
(* two folds of Issues::get and Issues::get_raw, the read projection       *)
(* (TryFrom<Automerge> for Issue) and the Issues service over an object    *)
(* log.  The Automerge document is modelled as an operation store: map     *)
(* entries carry the id of the operation that wrote them, a list is an     *)
(* RGA sequence of element ids, a change carries its actor, first          *)
(* operation counter and dependencies.                                     *)
(***************************************************************************)
EXTENDS Integers, Sequences, FiniteSets, TLC

(* ------------------------------ bounds -------------------------------- *)
\* Largest number of records in the object's log.
MaxLog == 3

\* Largest number of records in the log of a store that may fail.
MaxStoreLog == 2

\* Largest number of records in a log that other programs wrote to.
MaxDocLog == 2

\* Largest number of records in a log of comments and reactions that
\* peers write side by side.
MaxRaceLog == 4

\* Largest number of commits in the repository of a patch.
MaxCommits == 4

(* ----------------------------- input sets ----------------------------- *)
Peers == {"alice", "bob"}
Titles == {"t1", "t2"}
Bodies == {"b1", "b2"}
LabelNames == {"bug", "wontfix"}
LabelSlices == {<<"bug">>, <<"wontfix">>, <<"bug", "wontfix">>}
Emojis == {"x", "y"}
\* Actor ids a fresh Automerge document may draw (random in the code).
ActorIds == 1..MaxLog

(* ------------------------------ identities ---------------------------- *)
\* Urn::to_string of the identity of a peer.
UrnToString(p) == "rad:git:" \o p

\* Urn::encode_id: the bare id, without the scheme prefix.
EncodeId(p) == p

\* author(): Urn::from_str(..).unwrap(); "panic" stands for the failed unwrap.
UrnFromStr(s) ==
  IF \E p \in Peers : UrnToString(p) = s
  THEN CHOOSE p \in Peers : UrnToString(p) = s
  ELSE "panic"

\* A slip: the two arms exchanged.
StateToScalarSwapped(st) == IF st = "Open" THEN "closed" ELSE "open"

\* From<State> for ScalarValue
StateToScalar(st) == IF st = "Open" THEN "open" ELSE "closed"

\* A slip: every value that is not "closed" is taken as Open.
StateFromValueLenient(value) ==
  IF value.kind = "scalar" /\ value.val = "closed" THEN "Closed" ELSE "Open"

\* TryFrom<Value> for State on a value [kind, val]; "err" stands for
\* Err("value isn't a string") and Err("invalid state name").
StateFromValue(value) ==
  IF value.kind # "scalar" THEN "err"
  ELSE IF value.val = "open" THEN "Open"
  ELSE IF value.val = "closed" THEN "Closed"
  ELSE "err"

\* Reaction::new
ReactionNew(emoji) == [emoji |-> emoji]

\* A slip: the length of the string is not looked at.
ReactionFromStrAny(s) == [ok |-> TRUE, val |-> ReactionNew(s)]

\* Reaction::from_str: the Reaction of a string of exactly one character,
\* an error for the empty string and for a longer one.
ReactionFromStr(s) ==
  IF Len(s) = 1 THEN [ok |-> TRUE, val |-> ReactionNew(s)] ELSE [ok |-> FALSE]

\* reaction.emoji.to_string()
EmojiToString(reaction) == reaction.emoji

(* --------------------------- operation ids ---------------------------- *)
\* An operation id is <<counter, actor>>; ROOT is the root object and the
\* head of every list.
ROOT == <<0, 0>>

\* Lamport order of operation ids: by counter, then by actor.
OpLess(a, b) == a[1] < b[1] \/ (a[1] = b[1] /\ a[2] < b[2])

OpMax(S) == CHOOSE a \in S : \A b \in S : b = a \/ OpLess(b, a)

(* ------------------------------ documents ----------------------------- *)
\* Automerge::new(): no change applied, nothing queued, no operation.
NewDoc ==
  [applied |-> {}, heads |-> {}, queue |-> <<>>, maxOp |-> 0,
   vis |-> {}, lists |-> {}]

\* The visible entries of a map key (more than one after a conflict).
Visible(doc, obj, key) == {e \in doc.vis : e.obj = obj /\ e.key = key}

\* doc.get(obj, key): the visible entry with the greatest operation id.
DocGet(doc, obj, key) ==
  LET es == Visible(doc, obj, key)
  IN  IF es = {} THEN [found |-> FALSE]
      ELSE LET e == CHOOSE e \in es : e.id = OpMax({f.id : f \in es})
           IN  [found |-> TRUE, id |-> e.id, kind |-> e.kind, val |-> e.val]

\* doc.keys(obj): the keys of a map that hold a visible entry.
DocKeys(doc, obj) == {e.key : e \in {f \in doc.vis : f.obj = obj}}

\* The element ids of a list, in list order.
ListSeq(doc, obj) ==
  IF \E l \in doc.lists : l.obj = obj
  THEN (CHOOSE l \in doc.lists : l.obj = obj).seq
  ELSE <<>>

\* doc.length(list)
DocLength(doc, obj) == Len(ListSeq(doc, obj))

\* A slip: the index is ignored and the first element returned.
DocGetIdxFirst(doc, obj, ix) ==
  IF ix < Len(ListSeq(doc, obj))
  THEN [found |-> TRUE, id |-> ListSeq(doc, obj)[1]]
  ELSE [found |-> FALSE]

\* doc.get(list, index), index counted from 0.
DocGetIdx(doc, obj, ix) ==
  IF ix < DocLength(doc, obj)
  THEN [found |-> TRUE, id |-> ListSeq(doc, obj)[ix + 1]]
  ELSE [found |-> FALSE]

(* ------------------------- applying operations ------------------------ *)
IndexOf(seq, id) == CHOOSE i \in 1..Len(seq) : seq[i] = id

RECURSIVE SkipGreater(_, _, _)
\* Concurrent inserts after the same element: the new element goes behind
\* every following element whose id is greater than its own.
SkipGreater(seq, p, id) ==
  IF p + 1 <= Len(seq) /\ OpLess(id, seq[p + 1])
  THEN SkipGreater(seq, p + 1, id)
  ELSE p

\* A slip: the elements behind the place of the new element are dropped.
InsertAfterCut(seq, ref, id) ==
  LET start == IF ref = ROOT THEN 0 ELSE IndexOf(seq, ref)
  IN  SubSeq(seq, 1, start) \o <<id>>

\* The list with element id inserted after element ref (ROOT: at the head).
InsertAfter(seq, ref, id) ==
  LET start == IF ref = ROOT THEN 0 ELSE IndexOf(seq, ref)
      pos == SkipGreater(seq, start, id)
  IN  SubSeq(seq, 1, pos) \o <<id>> \o SubSeq(seq, pos + 1, Len(seq))

\* One operation with id `id` applied to a document.
ApplyOp(doc, op, id) ==
  LET lists1 ==
        IF op.insert
        THEN {IF l.obj = op.obj
              THEN [l EXCEPT !.seq = InsertAfter(l.seq, op.elem, id)]
              ELSE l : l \in doc.lists}
        ELSE doc.lists
      lists2 ==
        IF op.kind = "list" THEN lists1 \cup {[obj |-> id, seq |-> <<>>]}
        ELSE lists1
      vis1 ==
        IF op.insert THEN doc.vis
        ELSE {e \in doc.vis :
                ~(e.obj = op.obj /\ e.key = op.key /\ e.id \in op.pred)}
             \cup {[obj |-> op.obj, key |-> op.key, id |-> id,
                    kind |-> op.kind, val |-> op.val]}
  IN  [doc EXCEPT !.vis = vis1, !.lists = lists2,
                  !.maxOp = IF id[1] > @ THEN id[1] ELSE @]

RECURSIVE ApplyOps(_, _, _)
ApplyOps(doc, c, i) ==
  IF i > Len(c.ops) THEN doc
  ELSE ApplyOps(ApplyOp(doc, c.ops[i], <<c.startOp + i - 1, c.actor>>), c, i + 1)

\* The hash of a change; every change has an actor of its own.
Hash(c) == c.actor

\* A causally ready change applied: its operations, the history, the heads.
ApplyChange(doc, c) ==
  LET d == ApplyOps(doc, c, 1)
  IN  [d EXCEPT !.applied = @ \cup {Hash(c)},
                !.heads = (@ \ c.deps) \cup {Hash(c)},
                !.maxOp = IF c.startOp + Len(c.ops) - 1 > @
                          THEN c.startOp + Len(c.ops) - 1 ELSE @]

IsReady(doc, c) == c.deps \subseteq doc.applied

RemoveAt(seq, i) == SubSeq(seq, 1, i - 1) \o SubSeq(seq, i + 1, Len(seq))

RECURSIVE Drain(_)
\* Queued changes are applied as soon as their dependencies are.
Drain(doc) ==
  IF \E i \in 1..Len(doc.queue) : IsReady(doc, doc.queue[i])
  THEN LET i == CHOOSE i \in 1..Len(doc.queue) :
                  /\ IsReady(doc, doc.queue[i])
                  /\ \A j \in 1..(i - 1) : ~IsReady(doc, doc.queue[j])
           c == doc.queue[i]
       IN  Drain(ApplyChange([doc EXCEPT !.queue = RemoveAt(@, i)], c))
  ELSE doc

\* A slip: a change whose dependencies are missing is dropped.
DropUnready(doc, c) ==
  IF Hash(c) \in doc.applied THEN doc
  ELSE IF IsReady(doc, c) THEN ApplyChange(doc, c)
  ELSE doc

\* doc.apply_changes([change]): a change already applied is ignored, a
\* change whose dependencies are missing waits in the queue.
ApplyChanges(doc, c) ==
  IF Hash(c) \in doc.applied THEN doc
  ELSE IF IsReady(doc, c) THEN Drain(ApplyChange(doc, c))
  ELSE [doc EXCEPT !.queue = Append(@, c)]

(* ---------------------------- transactions --------------------------- *)
\* transact_with on a document: the operations get the counters after the
\* document's greatest one, the change depends on the document's heads.
TxBegin(doc, actor) ==
  [doc |-> doc, actor |-> actor, start |-> doc.maxOp + 1,
   deps |-> doc.heads, ops |-> <<>>]

TxNextId(tx) == <<tx.start + Len(tx.ops), tx.actor>>

TxPush(tx, op) ==
  [tx EXCEPT !.doc = ApplyOp(@, op, TxNextId(tx)), !.ops = Append(@, op)]

MapOp(obj, key, kind, val, pred) ==
  [obj |-> obj, key |-> key, elem |-> ROOT, insert |-> FALSE,
   kind |-> kind, val |-> val, pred |-> pred]

\* tx.put(obj, key, scalar): overwrites every visible entry of the key;
\* writing the value the key already holds alone is no operation at all.
TxPut(tx, obj, key, val) ==
  LET es == Visible(tx.doc, obj, key)
  IN  IF Cardinality(es) = 1 /\ \E e \in es : e.kind = "scalar" /\ e.val = val
      THEN tx
      ELSE TxPush(tx, MapOp(obj, key, "scalar", val, {e.id : e \in es}))

\* tx.put_object(obj, key, type): the new object has the operation's id.
TxPutObject(tx, obj, key, kind) ==
  TxPush(tx, MapOp(obj, key, kind, "", {e.id : e \in Visible(tx.doc, obj, key)}))

\* A slip: the index is ignored and the object inserted at the head.
TxInsertObjectHead(tx, list, index, kind) ==
  TxPush(tx, [obj |-> list, key |-> "", insert |-> TRUE, elem |-> ROOT,
              kind |-> kind, val |-> "", pred |-> {}])

\* tx.insert_object(list, index, type): after the element at index - 1.
TxInsertObject(tx, list, index, kind) ==
  TxPush(tx, [obj |-> list, key |-> "", insert |-> TRUE,
              elem |-> IF index = 0 THEN ROOT ELSE ListSeq(tx.doc, list)[index],
              kind |-> kind, val |-> "", pred |-> {}])

\* The committed change (get_last_local_change / save_incremental).
TxCommit(tx) ==
  [actor |-> tx.actor, startOp |-> tx.start, deps |-> tx.deps, ops |-> tx.ops]

(* -------------------------- mutation builders ------------------------- *)
\* A slip: the description stored as the title and the title as the body.
EventsCreateSwapped(actor, author, title, description) ==
  LET t0 == TxBegin(NewDoc, actor)
      issue == TxNextId(t0)
      t1 == TxPutObject(t0, ROOT, "issue", "map")
      t2 == TxPut(t1, issue, "title", description)
      t3 == TxPut(t2, issue, "author", UrnToString(author))
      t4 == TxPut(t3, issue, "state", StateToScalar("Open"))
      t5 == TxPutObject(t4, issue, "labels", "map")
      comments == TxNextId(t5)
      t6 == TxPutObject(t5, issue, "comments", "list")
      comment == TxNextId(t6)
      t7 == TxInsertObject(t6, comments, 0, "map")
      t8 == TxPut(t7, comment, "body", title)
      t9 == TxPut(t8, comment, "author", UrnToString(author))
      t10 == TxPutObject(t9, comment, "reactions", "map")
  IN  [status |-> "ok", change |-> TxCommit(t10)]

\* events::create
EventsCreate(actor, author, title, description) ==
  LET t0 == TxBegin(NewDoc, actor)
      issue == TxNextId(t0)
      t1 == TxPutObject(t0, ROOT, "issue", "map")
      t2 == TxPut(t1, issue, "title", title)
      t3 == TxPut(t2, issue, "author", UrnToString(author))
      t4 == TxPut(t3, issue, "state", StateToScalar("Open"))
      t5 == TxPutObject(t4, issue, "labels", "map")
      comments == TxNextId(t5)
      t6 == TxPutObject(t5, issue, "comments", "list")
      comment == TxNextId(t6)
      t7 == TxInsertObject(t6, comments, 0, "map")
      t8 == TxPut(t7, comment, "body", description)
      t9 == TxPut(t8, comment, "author", UrnToString(author))
      t10 == TxPutObject(t9, comment, "reactions", "map")
  IN  [status |-> "ok", change |-> TxCommit(t10)]

\* The steps of a program that leaves out fields: the transaction as it
\* is when the step is left out, the transaction after the step otherwise.
PutUnless(out, tx, obj, key, kind, val) ==
  IF out THEN tx ELSE TxPush(tx, MapOp(obj, key, kind, val, {}))

InsertUnless(out, tx, list) ==
  IF out THEN tx ELSE TxInsertObject(tx, list, 0, "map")

\* The first record of an issue that another program wrote: the change of
\* events::create without the operations for the fields in skip, and with
\* the given value [kind, val] as the state.
OtherCreate(actor, author, title, description, skip, state) ==
  LET t0 == TxBegin(NewDoc, actor)
      issue == TxNextId(t0)
      t1 == PutUnless("issue" \in skip, t0, ROOT, "issue", "map", "")
      t2 == PutUnless({"issue", "title"} \cap skip # {}, t1,
                      issue, "title", "scalar", title)
      t3 == PutUnless({"issue", "author"} \cap skip # {}, t2,
                      issue, "author", "scalar", UrnToString(author))
      t4 == PutUnless({"issue", "state"} \cap skip # {}, t3,
                      issue, "state", state.kind, state.val)
      t5 == PutUnless({"issue", "labels"} \cap skip # {}, t4,
                      issue, "labels", "map", "")
      comments == TxNextId(t5)
      t6 == PutUnless({"issue", "comments"} \cap skip # {}, t5,
                      issue, "comments", "list", "")
      comment == TxNextId(t6)
      t7 == InsertUnless({"issue", "comments", "comment"} \cap skip # {}, t6,
                         comments)
      t8 == PutUnless({"issue", "comments", "comment", "body"} \cap skip # {},
                      t7, comment, "body", "scalar", description)
      t9 == PutUnless({"issue", "comments", "comment", "comment_author"}
                        \cap skip # {},
                      t8, comment, "author", "scalar", UrnToString(author))
      t10 == PutUnless({"issue", "comments", "comment", "reactions"}
                         \cap skip # {},
                       t9, comment, "reactions", "map", "")
  IN  [status |-> "ok", change |-> TxCommit(t10)]

\* A slip: the author and body written into the last comment of the list
\* instead of a comment inserted behind it.
EventsCommentOverwrite(doc, actor, author, body) ==
  LET t0 == TxBegin(doc, actor)
      issue == DocGet(t0.doc, ROOT, "issue")
  IN  IF ~issue.found THEN [status |-> "panic"]
      ELSE
      LET comments == DocGet(t0.doc, issue.id, "comments")
      IN  IF ~comments.found THEN [status |-> "panic"]
          ELSE
          LET length == DocLength(t0.doc, comments.id)
              comment == ListSeq(t0.doc, comments.id)[length]
              t2 == TxPut(t0, comment, "author", UrnToString(author))
              t3 == TxPut(t2, comment, "body", body)
              t4 == TxPutObject(t3, comment, "labels", "map")
              t5 == TxPutObject(t4, comment, "reactions", "map")
          IN  [status |-> "ok", change |-> TxCommit(t5)]

\* A slip: the builder of a comment writes the state "open" as well.
EventsCommentReopens(doc, actor, author, body) ==
  LET t0 == TxBegin(doc, actor)
      issue == DocGet(t0.doc, ROOT, "issue")
  IN  IF ~issue.found THEN [status |-> "panic"]
      ELSE
      LET comments == DocGet(t0.doc, issue.id, "comments")
      IN  IF ~comments.found THEN [status |-> "panic"]
          ELSE
          LET length == DocLength(t0.doc, comments.id)
              comment == TxNextId(t0)
              t1 == TxInsertObject(t0, comments.id, length, "map")
              t2 == TxPut(t1, comment, "author", UrnToString(author))
              t3 == TxPut(t2, comment, "body", body)
              t4 == TxPutObject(t3, comment, "labels", "map")
              t5 == TxPutObject(t4, comment, "reactions", "map")
              t6 == TxPut(t5, issue.id, "state", StateToScalar("Open"))
          IN  [status |-> "ok", change |-> TxCommit(t6)]

\* events::comment
EventsComment(doc, actor, author, body) ==
  LET t0 == TxBegin(doc, actor)
      issue == DocGet(t0.doc, ROOT, "issue")
  IN  IF ~issue.found THEN [status |-> "panic"]
      ELSE
      LET comments == DocGet(t0.doc, issue.id, "comments")
      IN  IF ~comments.found THEN [status |-> "panic"]
          ELSE
          LET length == DocLength(t0.doc, comments.id)
              comment == TxNextId(t0)
              t1 == TxInsertObject(t0, comments.id, length, "map")
              t2 == TxPut(t1, comment, "author", UrnToString(author))
              t3 == TxPut(t2, comment, "body", body)
              t4 == TxPutObject(t3, comment, "labels", "map")
              t5 == TxPutObject(t4, comment, "reactions", "map")
          IN  [status |-> "ok", change |-> TxCommit(t5)]

\* A slip: the builder puts a fresh labels map next to the state.
EventsLifecycleNewLabels(doc, actor, state) ==
  LET t0 == TxBegin(doc, actor)
      issue == DocGet(t0.doc, ROOT, "issue")
  IN  IF ~issue.found THEN [status |-> "panic"]
      ELSE [status |-> "ok",
            change |-> TxCommit(
              TxPutObject(TxPut(t0, issue.id, "state", StateToScalar(state)),
                          issue.id, "labels", "map"))]

\* events::lifecycle
EventsLifecycle(doc, actor, state) ==
  LET t0 == TxBegin(doc, actor)
      issue == DocGet(t0.doc, ROOT, "issue")
  IN  IF ~issue.found THEN [status |-> "panic"]
      ELSE [status |-> "ok",
            change |-> TxCommit(TxPut(t0, issue.id, "state", StateToScalar(state)))]

\* A slip: only the first label of the slice is written.
PutLabelsFirstOnly(tx, labelsId, labels, i) ==
  IF i > Len(labels) THEN tx ELSE TxPut(tx, labelsId, labels[i], "true")

RECURSIVE PutLabels(_, _, _, _)
PutLabels(tx, labelsId, labels, i) ==
  IF i > Len(labels) THEN tx
  ELSE PutLabels(TxPut(tx, labelsId, labels[i], "true"), labelsId, labels, i + 1)

\* events::label
EventsLabel(doc, actor, labels) ==
  LET t0 == TxBegin(doc, actor)
      issue == DocGet(t0.doc, ROOT, "issue")
  IN  IF ~issue.found THEN [status |-> "panic"]
      ELSE
      LET labelsObj == DocGet(t0.doc, issue.id, "labels")
      IN  IF ~labelsObj.found THEN [status |-> "panic"]
          ELSE [status |-> "ok",
                change |-> TxCommit(PutLabels(t0, labelsObj.id, labels, 1))]

RECURSIVE PutReactionsFresh(_, _, _, _, _)
\* A slip: a new nested map is put under the symbol every time.
PutReactionsFresh(tx, reactionsId, author, reactions, i) ==
  IF i > Len(reactions) THEN tx
  ELSE LET key == EmojiToString(reactions[i])
           reactionId == TxNextId(tx)
           t1 == TxPutObject(tx, reactionsId, key, "map")
           t2 == TxPut(t1, reactionId, EncodeId(author), "true")
       IN  PutReactionsFresh(t2, reactionsId, author, reactions, i + 1)

RECURSIVE PutReactions(_, _, _, _, _)
PutReactions(tx, reactionsId, author, reactions, i) ==
  IF i > Len(reactions) THEN tx
  ELSE LET key == EmojiToString(reactions[i])
           old == DocGet(tx.doc, reactionsId, key)
           reactionId == IF old.found THEN old.id ELSE TxNextId(tx)
           t1 == IF old.found THEN tx
                 ELSE TxPutObject(tx, reactionsId, key, "map")
           t2 == TxPut(t1, reactionId, EncodeId(author), "true")
       IN  PutReactions(t2, reactionsId, author, reactions, i + 1)

\* A slip: the index is ignored and the last comment of the list taken.
EventsReactLast(doc, actor, comment_ix, author, reactions) ==
  LET t0 == TxBegin(doc, actor)
      issue == DocGet(t0.doc, ROOT, "issue")
  IN  IF ~issue.found THEN [status |-> "panic"]
      ELSE
      LET comments == DocGet(t0.doc, issue.id, "comments")
      IN  IF ~comments.found THEN [status |-> "panic"]
          ELSE
          LET comment == DocGetIdx(t0.doc, comments.id,
                                   DocLength(t0.doc, comments.id) - 1)
          IN  IF ~DocGetIdx(t0.doc, comments.id, comment_ix).found
              THEN [status |-> "panic"]
              ELSE
              LET rs == DocGet(t0.doc, comment.id, "reactions")
              IN  IF ~rs.found THEN [status |-> "panic"]
                  ELSE [status |-> "ok",
                        change |-> TxCommit(
                          PutReactions(t0, rs.id, author, reactions, 1))]

\* events::react
EventsReact(doc, actor, comment_ix, author, reactions) ==
  LET t0 == TxBegin(doc, actor)
      issue == DocGet(t0.doc, ROOT, "issue")
  IN  IF ~issue.found THEN [status |-> "panic"]
      ELSE
      LET comments == DocGet(t0.doc, issue.id, "comments")
      IN  IF ~comments.found THEN [status |-> "panic"]
          ELSE
          LET comment == DocGetIdx(t0.doc, comments.id, comment_ix)
          IN  IF ~comment.found THEN [status |-> "panic"]
              ELSE
              LET rs == DocGet(t0.doc, comment.id, "reactions")
              IN  IF ~rs.found THEN [status |-> "panic"]
                  ELSE [status |-> "ok",
                        change |-> TxCommit(
                          PutReactions(t0, rs.id, author, reactions, 1))]

(* ---------------------------- log records ---------------------------- *)
\* A record of an object's log: the bytes of one change, or bytes that no
\* change decodes from: "garbage" lacks the chunk header, "badsum" is a
\* framed chunk whose checksum does not match.
ChangeRecord(c) == [kind |-> "change", change |-> c]
CorruptKinds == {"garbage", "badsum"}
CorruptRecord(k) == [kind |-> k]

\* automerge::Change::from_bytes(bytes) is Ok
Decodes(rec) == rec.kind = "change"

(* ------------------------------ the folds ----------------------------- *)
RECURSIVE TypedFoldBreak(_, _, _)
\* A slip: the traversal stops at the first record that does not decode.
TypedFoldBreak(doc, records, i) ==
  IF i > Len(records) \/ ~Decodes(records[i]) THEN doc
  ELSE TypedFoldBreak(ApplyChanges(doc, records[i].change), records, i + 1)

RECURSIVE TypedFold(_, _, _)
\* Issues::get, the traverse closure: every record that decodes is applied,
\* every other record is ignored.
TypedFold(doc, records, i) ==
  IF i > Len(records) THEN doc
  ELSE TypedFold(IF Decodes(records[i])
                 THEN ApplyChanges(doc, records[i].change)
                 ELSE doc,
                 records, i + 1)

\* A slip: only the first block of the bytes is loaded.
LoadBlocksFirst(records, i, acc) ==
  IF Len(records) >= 1 /\ records[1].kind = "change"
  THEN [status |-> "ok", changes |-> <<records[1].change>>]
  ELSE [status |-> "ok", changes |-> <<>>]

RECURSIVE LoadBlocks(_, _, _)
\* Automerge::load on the concatenated bytes: the blocks are split off up to
\* the first bytes that are no chunk header, the rest is ignored; a framed
\* block that does not decode is an error.
LoadBlocks(records, i, acc) ==
  IF i > Len(records) THEN [status |-> "ok", changes |-> acc]
  ELSE IF records[i].kind = "garbage" THEN [status |-> "ok", changes |-> acc]
  ELSE IF records[i].kind = "badsum" THEN [status |-> "err"]
  ELSE LoadBlocks(records, i + 1, Append(acc, records[i].change))

RECURSIVE QueueAll(_, _, _)
QueueAll(doc, changes, i) ==
  IF i > Len(changes) THEN doc
  ELSE QueueAll(IF Hash(changes[i]) \in doc.applied THEN doc
                ELSE IF IsReady(doc, changes[i])
                     THEN ApplyChange(doc, changes[i])
                     ELSE [doc EXCEPT !.queue = Append(@, changes[i])],
                changes, i + 1)

\* Issues::get_raw, after retrieve: the records' bytes concatenated and
\* loaded as one document.
RawFold(records) ==
  LET blocks == LoadBlocks(records, 1, <<>>)
  IN  IF blocks.status = "err" THEN [status |-> "err"]
      ELSE [status |-> "ok", doc |-> Drain(QueueAll(NewDoc, blocks.changes, 1))]

(* --------------------------- read projection -------------------------- *)
\* A string value is present (into_string().unwrap() succeeds).
IsStr(v) == v.found /\ v.kind = "scalar"

\* A slip: a comment without reactions is taken to have none.
CommentOfLenient(doc, commentId) ==
  LET author == DocGet(doc, commentId, "author")
      body == DocGet(doc, commentId, "body")
  IN  IF ~author.found \/ ~body.found THEN [ok |-> FALSE]
      ELSE IF ~IsStr(author) \/ UrnFromStr(author.val) = "panic" \/ ~IsStr(body)
      THEN [ok |-> FALSE]
      ELSE [ok |-> TRUE, author |-> UrnFromStr(author.val), body |-> body.val,
            reactions |-> <<>>]

\* A slip: the count of a symbol is the number of authors stored under it.
CommentOfCountAuthors(doc, commentId) ==
  LET author == DocGet(doc, commentId, "author")
      body == DocGet(doc, commentId, "body")
      reactions == DocGet(doc, commentId, "reactions")
  IN  IF ~author.found \/ ~body.found \/ ~reactions.found THEN [ok |-> FALSE]
      ELSE IF ~IsStr(author) \/ UrnFromStr(author.val) = "panic" \/ ~IsStr(body)
      THEN [ok |-> FALSE]
      ELSE LET keys == DocKeys(doc, reactions.id)
           IN  IF \E k \in keys : ~ReactionFromStr(k).ok THEN [ok |-> FALSE]
               ELSE [ok |-> TRUE,
                     author |-> UrnFromStr(author.val),
                     body |-> body.val,
                     reactions |->
                       [r \in {ReactionFromStr(k).val : k \in keys} |->
                          Cardinality(DocKeys(doc,
                            DocGet(doc, reactions.id, EmojiToString(r)).id))]]

\* The loop body of TryFrom<Automerge> for Issue: one comment.
CommentOf(doc, commentId) ==
  LET author == DocGet(doc, commentId, "author")
      body == DocGet(doc, commentId, "body")
      reactions == DocGet(doc, commentId, "reactions")
  IN  IF ~author.found \/ ~body.found \/ ~reactions.found THEN [ok |-> FALSE]
      ELSE IF ~IsStr(author) \/ UrnFromStr(author.val) = "panic" \/ ~IsStr(body)
      THEN [ok |-> FALSE]
      ELSE LET keys == DocKeys(doc, reactions.id)
           IN  IF \E k \in keys : ~ReactionFromStr(k).ok THEN [ok |-> FALSE]
               ELSE [ok |-> TRUE,
                     author |-> UrnFromStr(author.val),
                     body |-> body.val,
                     reactions |->
                       [r \in {ReactionFromStr(k).val : k \in keys} |->
                          Cardinality({k \in keys : ReactionFromStr(k).val = r})]]

\* TryFrom<Automerge> for Issue; "panic" stands for a failed unwrap or
\* assertion.
IssueTryFrom(doc) ==
  LET issue == DocGet(doc, ROOT, "issue")
  IN  IF ~issue.found THEN [status |-> "panic"]
      ELSE
      LET title == DocGet(doc, issue.id, "title")
          comments == DocGet(doc, issue.id, "comments")
          author == DocGet(doc, issue.id, "author")
          state == DocGet(doc, issue.id, "state")
          labels == DocGet(doc, issue.id, "labels")
      IN  IF ~title.found \/ ~comments.found \/ ~author.found
             \/ ~state.found \/ ~labels.found
          THEN [status |-> "panic"]
          ELSE IF comments.kind # "list" \/ labels.kind # "map"
          THEN [status |-> "panic"]
          ELSE
          LET ids == ListSeq(doc, comments.id)
              cs == [i \in 1..Len(ids) |-> CommentOf(doc, ids[i])]
          IN  IF \E i \in 1..Len(ids) : ~cs[i].ok THEN [status |-> "panic"]
              ELSE IF ~IsStr(author) \/ UrnFromStr(author.val) = "panic"
              THEN [status |-> "panic"]
              ELSE IF Len(ids) = 0 THEN [status |-> "panic"]
              ELSE IF StateFromValue(state) = "err"
              THEN [status |-> "panic"]
              ELSE IF ~IsStr(title) THEN [status |-> "panic"]
              ELSE [status |-> "ok",
                    title |-> title.val,
                    state |-> StateFromValue(state),
                    author |-> UrnFromStr(author.val),
                    comments |->
                      [i \in 1..Len(ids) |->
                         [author |-> cs[i].author, body |-> cs[i].body,
                          reactions |-> cs[i].reactions]],
                    labels |-> DocKeys(doc, labels.id)]

\* A slip: the fold and the projection run on whatever retrieve returned.
GetUnchecked(records) == IssueTryFrom(TypedFold(NewDoc, records, 1))

\* Issues::get on the records the store retrieves (<<>>: object unknown).
Get(records) ==
  IF records = <<>> THEN [status |-> "none"]
  ELSE IssueTryFrom(TypedFold(NewDoc, records, 1))

\* Issues::get_raw on the records the store retrieves.
GetRaw(records) ==
  IF records = <<>> THEN [status |-> "none"]
  ELSE RawFold(records)

\* Issue::comments(): the comments after the description.
CommentsTail(issue) == Tail(issue.comments)

\* Issue::description()
Description(issue) == issue.comments[1].body

\* Issue::reactions(): the reactions of the description.
HeadReactions(issue) == issue.comments[1].reactions

(* ------------------------------ the state ----------------------------- *)
\* log: the records of the issue in the store, in the order they were
\*      appended (<<>>: the store does not know the object).
\* last: the service call or store event that happened last, with its
\*      inputs, the replica (positions of the log) it ran on and how it
\*      ended: "ok", "err" (an Err returned) or "panic".
VARIABLES log, last

vars == <<log, last>>

UsedActors == {log[i].change.actor : i \in {j \in 1..Len(log) : Decodes(log[j])}}

RECURSIVE SubLog(_, _, _)
\* The records of `records` at the positions in b, in log order.
SubLog(records, b, i) ==
  IF i > Len(records) THEN <<>>
  ELSE (IF i \in b THEN <<records[i]>> ELSE <<>>) \o SubLog(records, b, i + 1)

\* What retrieve may return to a caller: the records its replica holds, a
\* causally closed part of the log that holds the create record.
Replicas ==
  {b \in SUBSET (1..Len(log)) :
     /\ 1 \in b
     /\ \A i \in b : Decodes(log[i]) =>
          log[i].change.deps \subseteq
            {log[j].change.actor : j \in {k \in b : k < i /\ Decodes(log[k])}}}

\* The replicas a call may run on; an unknown object has none.
Views == IF log = <<>> THEN {{}} ELSE Replicas

Full == 1..Len(log)

\* What a call returns on success: nothing, or an id of the store.
Unit == [kind |-> "unit"]

\* The id the store gives to the i-th record of the object's history.
Revision(i) == [kind |-> "id", id |-> i]

\* cob.id(): the id of the object, which is that of its first record.
ObjectId == Revision(1)

\* What the store may do in a call: serve it, or fail its create, its
\* retrieve or its update.
StoreFaults == {"none", "create", "retrieve", "update"}

\* A store that serves every call.
NoFault == {"none"}

\* A call and its inputs; the inputs a call does not take are left empty.
\* error is the variant of Error a call returned, fault the store call that
\* failed, ret the value in the Ok the call returned.
Call(op, peer, title, body, labels, emoji, ix, base) ==
  [op |-> op, status |-> "ok", error |-> "", fault |-> "none", ret |-> Unit,
   peer |-> peer, title |-> title, body |-> body,
   labels |-> labels, emoji |-> emoji, ix |-> ix, base |-> base]

Writers == {"comment", "close", "label", "react"}

TypeOK ==
  /\ Len(log) <= MaxRaceLog
  /\ \A i \in 1..Len(log) : log[i].kind \in {"change"} \cup CorruptKinds
  /\ last.op \in {"init", "create", "foreign", "other", "get", "get_raw"}
                \cup Writers
  /\ last.status \in {"ok", "err", "panic"}
  /\ last.error \in {"", "Create", "Retrieve", "Automerge"}
  /\ last.fault \in StoreFaults
  /\ last.ret.kind \in {"unit", "id", "none", "some"}
  /\ last.base \subseteq 1..Len(log)

Init ==
  /\ log = <<>>
  /\ last = Call("init", "", "", "", <<>>, "", 0, {})

\* What is kept of a call that failed: the call and the way it ended.
Failed(call, status) ==
  [Call(call.op, "", "", "", <<>>, "", 0, {}) EXCEPT !.status = status]

\* A slip: every failure of the store is passed on as Error::Automerge.
FaultedUnclassified(call, status, error, fault) ==
  [Failed(call, status) EXCEPT !.error = "Automerge", !.fault = fault]

\* A failed call, with the Error it returned and the store call that failed.
Faulted(call, status, error, fault) ==
  [Failed(call, status) EXCEPT !.error = error, !.fault = fault]

\* A slip: the record is kept although the store failed the update.
SubmitKeepsRecord(call, f, raw, res) ==
  IF f = "retrieve" THEN
    /\ last' = Faulted(call, "err", "Retrieve", f)
    /\ UNCHANGED log
  ELSE IF raw.status = "none" THEN
    /\ last' = Failed(call, "panic")
    /\ UNCHANGED log
  ELSE IF raw.status = "err" THEN
    /\ last' = Faulted(call, "err", "Automerge", "none")
    /\ UNCHANGED log
  ELSE IF res.status = "panic" THEN
    /\ last' = Failed(call, "panic")
    /\ UNCHANGED log
  ELSE IF f = "update" THEN
    /\ last' = Faulted(call, "panic", "", f)
    /\ log' = Append(log, ChangeRecord(res.change))
  ELSE
    /\ log' = Append(log, ChangeRecord(res.change))
    /\ last' = call

\* A slip: a call on an unknown object does nothing and reports success.
SubmitIgnoresUnknown(call, f, raw, res) ==
  IF f = "retrieve" THEN
    /\ last' = Faulted(call, "err", "Retrieve", f)
    /\ UNCHANGED log
  ELSE IF raw.status = "none" THEN
    /\ last' = call
    /\ UNCHANGED log
  ELSE IF raw.status = "err" THEN
    /\ last' = Faulted(call, "err", "Automerge", "none")
    /\ UNCHANGED log
  ELSE IF res.status = "panic" THEN
    /\ last' = Failed(call, "panic")
    /\ UNCHANGED log
  ELSE IF f = "update" THEN
    /\ last' = Faulted(call, "panic", "", f)
    /\ UNCHANGED log
  ELSE
    /\ log' = Append(log, ChangeRecord(res.change))
    /\ last' = call

\* The tail of comment, close, label and react: get_raw(..)?.unwrap(), the
\* builder's result, store.update(..).unwrap().
Submit(call, f, raw, res) ==
  IF f = "retrieve" THEN
    /\ last' = Faulted(call, "err", "Retrieve", f)
    /\ UNCHANGED log
  ELSE IF raw.status = "none" THEN
    /\ last' = Failed(call, "panic")
    /\ UNCHANGED log
  ELSE IF raw.status = "err" THEN
    /\ last' = Faulted(call, "err", "Automerge", "none")
    /\ UNCHANGED log
  ELSE IF res.status = "panic" THEN
    /\ last' = Failed(call, "panic")
    /\ UNCHANGED log
  ELSE IF f = "update" THEN
    /\ last' = Faulted(call, "panic", "", f)
    /\ UNCHANGED log
  ELSE
    /\ log' = Append(log, ChangeRecord(res.change))
    /\ last' = call

\* Issues::create
Create(p, title, description, a, f) ==
  LET call == Call("create", p, title, description, <<>>, "", 0, {})
  IN  /\ log = <<>>
      /\ IF f = "create" THEN
           /\ last' = Faulted(call, "err", "Create", f)
           /\ UNCHANGED log
         ELSE
           /\ log' = <<ChangeRecord(EventsCreate(a, p, title, description).change)>>
           /\ last' = [call EXCEPT !.ret = ObjectId]

\* self.get_raw(project, issue_id) on the replica b of the caller.
Retrieved(b) == GetRaw(SubLog(log, b, 1))

\* Issues::comment, raw being what get_raw returned on replica b.
Comment(p, body, a, b, raw, f) ==
  Submit([Call("comment", p, "", body, <<>>, "", 0, b) EXCEPT !.ret = ObjectId],
         f, raw, EventsComment(raw.doc, a, p, body))

\* Issues::close (the builder makes no use of the caller's identity)
Close(a, b, raw, f) ==
  Submit(Call("close", "", "", "", <<>>, "", 0, b),
         f, raw, EventsLifecycle(raw.doc, a, "Closed"))

\* Issues::label (the builder makes no use of the caller's identity)
Label(labels, a, b, raw, f) ==
  Submit(Call("label", "", "", "", labels, "", 0, b),
         f, raw, EventsLabel(raw.doc, a, labels))

\* Issues::react
React(p, comment_ix, reaction, a, b, raw, f) ==
  Submit(Call("react", p, "", "", <<>>, reaction.emoji, comment_ix, b),
         f, raw, EventsReact(raw.doc, a, comment_ix, p, <<reaction>>))

\* Issues::get on the replica b of the caller; the store is only read.
GetIssue(b, f) ==
  LET call == Call("get", "", "", "", <<>>, "", 0, b)
      g == Get(SubLog(log, b, 1))
  IN  /\ UNCHANGED log
      /\ last' = IF f = "retrieve" THEN Faulted(call, "err", "Retrieve", f)
                 ELSE IF g.status = "panic" THEN Failed(call, "panic")
                 ELSE IF g.status = "none"
                      THEN [call EXCEPT !.ret = [kind |-> "none"]]
                      ELSE [call EXCEPT !.ret = [kind |-> "some"]]

\* Issues::get_raw called for itself, on the replica b of the caller.
GetRawDoc(b, f) ==
  LET call == Call("get_raw", "", "", "", <<>>, "", 0, b)
      raw == Retrieved(b)
  IN  /\ UNCHANGED log
      /\ last' = IF f = "retrieve" THEN Faulted(call, "err", "Retrieve", f)
                 ELSE IF raw.status = "err"
                      THEN Faulted(call, "err", "Automerge", "none")
                 ELSE IF raw.status = "none"
                      THEN [call EXCEPT !.ret = [kind |-> "none"]]
                      ELSE [call EXCEPT !.ret = [kind |-> "some"]]

\* The store receives a record that is no Automerge change.
Foreign(k) ==
  /\ log # <<>>
  /\ log' = Append(log, CorruptRecord(k))
  /\ last' = Call("foreign", "", "", "", <<>>, "", 0, {})

\* The calls of the service and the events of the store, with their inputs
\* drawn from the given sets, while the log holds fewer than n records.
DoCreate(n, titles, bodies, faults) ==
  /\ Len(log) < n
  /\ \E p \in Peers, t \in titles, d \in bodies, a \in ActorIds,
        f \in faults \cap {"none", "create"} :
       Create(p, t, d, a, f)

DoComment(n, bodies, faults) ==
  /\ Len(log) < n
  /\ \E b \in Views :
       LET raw == Retrieved(b)
       IN  \E p \in Peers, body \in bodies, a \in ActorIds \ UsedActors,
              f \in faults \cap {"none", "retrieve", "update"} :
             Comment(p, body, a, b, raw, f)

DoClose(n, faults) ==
  /\ Len(log) < n
  /\ \E b \in Views :
       LET raw == Retrieved(b)
       IN  \E a \in ActorIds \ UsedActors,
              f \in faults \cap {"none", "retrieve", "update"} :
             Close(a, b, raw, f)

DoLabel(n, slices, faults) ==
  /\ Len(log) < n
  /\ \E b \in Views :
       LET raw == Retrieved(b)
       IN  \E ls \in slices, a \in ActorIds \ UsedActors,
              f \in faults \cap {"none", "retrieve", "update"} :
             Label(ls, a, b, raw, f)

DoReact(n, emojis, faults) ==
  /\ Len(log) < n
  /\ \E b \in Views :
       LET raw == Retrieved(b)
       IN  \E p \in Peers, ix \in 0..Len(log), e \in emojis,
              a \in ActorIds \ UsedActors,
              f \in faults \cap {"none", "retrieve", "update"} :
             React(p, ix, ReactionNew(e), a, b, raw, f)

DoGet(n, faults) ==
  /\ Len(log) < n
  /\ \E b \in Views, f \in faults \cap {"none", "retrieve"} : GetIssue(b, f)

DoGetRaw(n, faults) ==
  /\ Len(log) < n
  /\ \E b \in Views, f \in faults \cap {"none", "retrieve"} : GetRawDoc(b, f)

DoForeign(n, kinds) ==
  /\ Len(log) < n
  /\ \E k \in kinds : Foreign(k)

\* The store receives, as the first record of an object, a well-formed
\* change of another program.
OtherCreated(p, title, description, a, skip, state) ==
  /\ log = <<>>
  /\ log' = <<ChangeRecord(
               OtherCreate(a, p, title, description, skip, state).change)>>
  /\ last' = Call("other", "", "", "", <<>>, "", 0, {})

\* The store receives, as the first record of an object, bytes that are no
\* Automerge change.
ForeignFirst(k) ==
  /\ log = <<>>
  /\ log' = <<CorruptRecord(k)>>
  /\ last' = Call("foreign", "", "", "", <<>>, "", 0, {})

\* The store receives the well-formed change of another program that puts
\* the key `key`, of any length, into the reactions of the description.
OtherReacted(p, key, a) ==
  LET raw == Retrieved(Full)
      res == IF raw.status = "ok"
             THEN EventsReact(raw.doc, a, 0, p, <<[emoji |-> key]>>)
             ELSE [status |-> "panic"]
  IN  /\ log # <<>>
      /\ res.status = "ok"
      /\ log' = Append(log, ChangeRecord(res.change))
      /\ last' = Call("other", "", "", "", <<>>, "", 0, {})

DoOtherCreate(n, skips, states) ==
  /\ Len(log) < n
  /\ \E skip \in skips, st \in states :
       OtherCreated("alice", "t1", "b1", 1, skip, st)

DoForeignFirst(n, kinds) ==
  /\ Len(log) < n
  /\ \E k \in kinds : ForeignFirst(k)

DoOtherReact(n, keys) ==
  /\ Len(log) < n
  /\ \E p \in Peers, key \in keys, a \in ActorIds \ UsedActors :
       OtherReacted(p, key, a)

\* The service over a store that serves every call: all inputs, logs of up
\* to MaxLog records.
Next ==
  \/ DoCreate(MaxLog, Titles, Bodies, NoFault)
  \/ DoComment(MaxLog, Bodies, NoFault)
  \/ DoClose(MaxLog, NoFault)
  \/ DoLabel(MaxLog, LabelSlices, NoFault)
  \/ DoReact(MaxLog, Emojis, NoFault)
  \/ DoForeign(MaxLog, CorruptKinds)

Spec == Init /\ [][Next]_vars

\* The service over a store that may fail any of its calls, the reads of
\* the service included: logs of up to MaxStoreLog records.
StoreNext ==
  \/ DoCreate(MaxStoreLog, {"t1"}, {"b1"}, StoreFaults)
  \/ DoComment(MaxStoreLog, {"b2"}, StoreFaults)
  \/ DoClose(MaxStoreLog, StoreFaults)
  \/ DoLabel(MaxStoreLog, {<<"bug">>}, StoreFaults)
  \/ DoReact(MaxStoreLog, {"x"}, StoreFaults)
  \/ DoGet(MaxStoreLog + 1, StoreFaults)
  \/ DoGetRaw(MaxStoreLog + 1, StoreFaults)
  \/ DoForeign(MaxStoreLog, {"badsum"})

StoreSpec == Init /\ [][StoreNext]_vars

\* The fields of an issue document a record of another program may lack,
\* at most one at a time.
IssueFields ==
  {"issue", "title", "author", "state", "labels", "comments", "comment",
   "body", "comment_author", "reactions"}

Skips == {skip \in SUBSET IssueFields : Cardinality(skip) <= 1}

\* The values another program may store as the state: strings and values
\* that are no string.
StateValues ==
  {[kind |-> "scalar", val |-> "open"], [kind |-> "scalar", val |-> "closed"],
   [kind |-> "scalar", val |-> "Open"], [kind |-> "scalar", val |-> ""],
   [kind |-> "bool", val |-> "true"], [kind |-> "map", val |-> ""]}

\* The reaction keys another program may store: one character, none, two.
ReactionKeys == {"x", "", "xy"}

\* The service reading and writing objects whose records other programs
\* wrote: logs of up to MaxDocLog records.
DocNext ==
  \/ DoOtherCreate(MaxDocLog, Skips, StateValues)
  \/ DoForeignFirst(MaxDocLog, CorruptKinds)
  \/ DoOtherReact(MaxDocLog, ReactionKeys)
  \/ DoComment(MaxDocLog, {"b2"}, NoFault)
  \/ DoClose(MaxDocLog, NoFault)
  \/ DoReact(MaxDocLog, {"y"}, NoFault)
  \/ DoGet(MaxDocLog + 1, NoFault)

DocSpec == Init /\ [][DocNext]_vars

\* The actor ids the documents of a log of up to MaxRaceLog records draw.
RaceActors == 1..MaxRaceLog

\* Issues::create, comment and react with the actor id drawn from `actors`.
DoCreateWith(n, peers, titles, bodies, actors) ==
  /\ Len(log) < n
  /\ \E p \in peers, t \in titles, d \in bodies, a \in actors :
       Create(p, t, d, a, "none")

DoCommentWith(n, peers, bodies, actors) ==
  /\ Len(log) < n
  /\ \E b \in Views :
       LET raw == Retrieved(b)
       IN  \E p \in peers, body \in bodies, a \in actors \ UsedActors :
             Comment(p, body, a, b, raw, "none")

DoReactWith(n, peers, emojis, actors) ==
  /\ Len(log) < n
  /\ \E b \in Views :
       LET raw == Retrieved(b)
       IN  \E p \in peers, ix \in 0..Len(log), e \in emojis,
              a \in actors \ UsedActors :
             React(p, ix, ReactionNew(e), a, b, raw, "none")

\* Peers that comment and react side by side, each on the replica it
\* holds: logs of up to MaxRaceLog records.
RaceNext ==
  \/ DoCreateWith(MaxRaceLog, {"alice"}, {"t1"}, {"b1"}, {1})
  \/ DoCommentWith(MaxRaceLog, Peers, {"b2"}, RaceActors)
  \/ DoReactWith(MaxRaceLog, Peers, {"x"}, RaceActors)

RaceSpec == Init /\ [][RaceNext]_vars

(* ------------------------------- patches ------------------------------ *)
\* Model of common/src/patch.rs, state and merge_base.  A repository is its
\* commits 1..n, the parents of each (commits made before it) and what
\* repo.head() gives: an error (no HEAD, an unborn branch) or the resolved
\* reference with its target commit.
Dags(n) ==
  {ps \in [1..n -> SUBSET (1..n)] : \A c \in 1..n : ps[c] \subseteq 1..(c - 1)}

Heads(n) == {[ok |-> FALSE, target |-> 0]} \cup {[ok |-> TRUE, target |-> c] : c \in 1..n}

Repositories ==
  {[parents |-> ps, head |-> h] :
     ps \in UNION {Dags(n) : n \in 0..MaxCommits},
     h \in UNION {Heads(n) : n \in 0..MaxCommits}}

\* The repositories whose HEAD, when it can be read, is one of their commits.
Repos == {r \in Repositories : r.head.ok => r.head.target \in DOMAIN r.parents}

\* The commit of a patch: a commit of the repository, or one it lacks.
PatchCommits == 1..(MaxCommits + 1)

RECURSIVE Ancestors(_, _)
\* The commits reachable from c, c included.
Ancestors(repo, c) ==
  {c} \cup UNION {Ancestors(repo, p) : p \in repo.parents[c]}

\* git_merge_base: the common ancestors of two commits that are ancestors
\* of no other common ancestor; the library returns one of them, and an
\* error when there is none or when a commit is missing.
BestCommonAncestors(repo, one, two) ==
  IF one \notin DOMAIN repo.parents \/ two \notin DOMAIN repo.parents THEN {}
  ELSE LET common == Ancestors(repo, one) \cap Ancestors(repo, two)
       IN  {b \in common :
              \A d \in common : d # b => b \notin Ancestors(repo, d)}

\* Ok(Some(oid)), Ok(None) and Err(..) of merge_base.
SomeBase(oid) == [ok |-> TRUE, some |-> TRUE, oid |-> oid]
NoBase == [ok |-> TRUE, some |-> FALSE, oid |-> 0]
BaseErr == [ok |-> FALSE, some |-> FALSE, oid |-> 0]

\* merge_base: the results the call may give.  repo.head()? passes the error
\* of HEAD on; an error of repo.merge_base becomes None.
MergeBase(repo, commit) ==
  IF ~repo.head.ok THEN {BaseErr}
  ELSE LET bases == BestCommonAncestors(repo, repo.head.target, commit)
       IN  IF bases = {} THEN {NoBase} ELSE {SomeBase(b) : b \in bases}

\* A slip: a patch without a merge base is taken as merged.
PatchStateNoBaseMerged(base, commit) ==
  IF base.ok /\ base.some
  THEN (IF base.oid = commit THEN "Merged" ELSE "Open")
  ELSE IF base.ok THEN "Merged" ELSE "Open"

\* state, on what merge_base returned.
PatchState(base, commit) ==
  IF base.ok /\ base.some
  THEN (IF base.oid = commit THEN "Merged" ELSE "Open")
  ELSE "Open"

\* A call of state and its inputs: the repository and the commit of the
\* patch; base is what merge_base returned to it, ret the State returned.
StateCall(op, repo, commit, base, ret) ==
  [op |-> op, status |-> "ok", repo |-> repo, commit |-> commit,
   base |-> base, ret |-> [kind |-> ret]]

\* The repository and the patch a call of state is given.
PatchInit ==
  /\ log = <<>>
  /\ last \in {StateCall("init", r, c, BaseErr, "") : r \in Repos, c \in PatchCommits}

\* patch::state
DoState ==
  /\ last.op = "init"
  /\ \E base \in MergeBase(last.repo, last.commit) :
       last' = StateCall("state", last.repo, last.commit, base,
                         PatchState(base, last.commit))
  /\ UNCHANGED log

PatchNext == DoState

PatchSpec == PatchInit /\ [][PatchNext]_vars

(* ------------------------- helpers of the claims ---------------------- *)
\* The permutations of 1..n.
Perms(n) == {f \in [1..n -> 1..n] : \A i, j \in 1..n : f[i] = f[j] => i = j}

Permuted(records, f) == [i \in 1..Len(records) |-> records[f[i]]]

AllDecode(records) == \A i \in 1..Len(records) : Decodes(records[i])

\* A record that events::comment built, and the body it carries.
IsCommentRecord(rec) ==
  Decodes(rec) /\ Len(rec.change.ops) = 5 /\ rec.change.ops[1].insert

CommentRecordBody(rec) == rec.change.ops[3].val

\* Two change records neither of which was built on the other.
Concurrent(r1, r2) ==
  /\ Decodes(r1) /\ Decodes(r2)
  /\ Hash(r1.change) \notin r2.change.deps
  /\ Hash(r2.change) \notin r1.change.deps

\* The last call was `op` and it succeeded.
Done(op) == last.op = op /\ last.status = "ok"

\* The log a successful comment, close, label or react found: the log
\* without the record the call appended.
Pre == SubSeq(log, 1, Len(log) - 1)

\* The last call ran on a replica that held every record of the log.
OnFull == last.base = 1..(Len(log) - 1)

(* -------------------------------- C1 ---------------------------------- *)
\* C1: convergence.  Whatever the order in which the records of the log
\* reach the typed fold, Issues::get yields the same result: the same title,
\* author, state, comment sequence and labels.
C1_Convergence ==
  \A f \in Perms(Len(log)) : Get(Permuted(log, f)) = Get(log)

\* Two causally unrelated comments next to the create record, all three
\* materialized.
C1_Witness ==
  /\ Len(log) = 3
  /\ IsCommentRecord(log[2]) /\ IsCommentRecord(log[3])
  /\ Concurrent(log[2], log[3])
  /\ Get(log).status = "ok"
  /\ Len(Get(log).comments) = 3

(* -------------------------------- C2 ---------------------------------- *)
\* C2: round trip.  Issues::create followed by Issues::get yields an Issue
\* with the given title and description, the creator as author, state Open,
\* no comment after the description, no label and no reaction on the
\* description.
C2_RoundTrip ==
  Done("create") =>
    LET g == Get(log)
    IN  /\ g.status = "ok"
        /\ g.title = last.title
        /\ Description(g) = last.body
        /\ g.author = last.peer
        /\ g.state = "Open"
        /\ CommentsTail(g) = <<>>
        /\ g.labels = {}
        /\ DOMAIN HeadReactions(g) = {}

\* bob created an issue with the second title.
C2_Witness ==
  /\ Done("create")
  /\ last.title = "t2" /\ last.body = "b1" /\ last.peer = "bob"
  /\ Get(log).status = "ok"
  /\ Get(log).title = "t2"

(* -------------------------------- C3 ---------------------------------- *)
\* C3: comment ordering.  A comment call built on a state that reflects
\* every earlier record puts its comment, with the caller as author and the
\* given body, behind all the comments get returned before, which stay as
\* they were: comments appear in append order after the description.
C3_CommentOrder ==
  (Done("comment") /\ OnFull /\ AllDecode(Pre)) =>
    LET g == Get(Pre)
        h == Get(log)
    IN  /\ g.status = "ok"
        /\ h.status = "ok"
        /\ h.comments =
             Append(g.comments,
                    [author |-> last.peer, body |-> last.body,
                     reactions |-> <<>>])

\* Two comments made one after the other, by different authors.
C3_Witness ==
  /\ Len(log) = 3
  /\ Done("comment") /\ OnFull
  /\ IsCommentRecord(log[2])
  /\ log[3].change.deps = {Hash(log[2].change)}
  /\ Get(log).status = "ok"
  /\ CommentsTail(Get(log)) =
       << [author |-> "alice", body |-> "b2", reactions |-> <<>>],
          [author |-> "bob", body |-> "b1", reactions |-> <<>>] >>

(* -------------------------------- C4 ---------------------------------- *)
\* C4: state transition and idempotence.  After every successful close,
\* the first and any further one, get reports the state Closed.
C4_CloseIsClosed ==
  Done("close") =>
    /\ Get(log).status = "ok"
    /\ Get(log).state = "Closed"

\* A close of an issue that a first close had closed already.
C4_Witness ==
  /\ Len(log) = 3
  /\ Done("close") /\ OnFull
  /\ AllDecode(log)
  /\ Get(SubSeq(log, 1, 1)).state = "Open"
  /\ Get(Pre).state = "Closed"
  /\ Get(log).state = "Closed"

(* -------------------------------- C5 ---------------------------------- *)
\* C5: label idempotence.  After a label call the labels get returns are
\* those it returned before together with the names of the call: a name
\* already present changes nothing, new names are all added.
C5_Labels ==
  Done("label") =>
    /\ Get(Pre).status = "ok"
    /\ Get(log).status = "ok"
    /\ Get(log).labels =
         Get(Pre).labels \cup {last.labels[i] : i \in 1..Len(last.labels)}

\* "bug" added to an issue that had it.
C5_Witness ==
  /\ Len(log) = 3
  /\ Done("label") /\ OnFull
  /\ last.labels = <<"bug">>
  /\ AllDecode(log)
  /\ Get(SubSeq(log, 1, 1)).labels = {}
  /\ Get(Pre).labels = {"bug"}
  /\ Get(log).labels = {"bug"}

(* -------------------------------- C6 ---------------------------------- *)
\* C6: reaction encoding.  After react on a valid comment index, built on
\* a state that reflects every earlier record, the comment at that index
\* has the symbol in its reactions with count 1, and every other comment is
\* as it was.
C6_React ==
  (Done("react") /\ OnFull /\ AllDecode(Pre)) =>
    LET g == Get(Pre)
        h == Get(log)
        k == last.ix + 1
    IN  /\ g.status = "ok"
        /\ h.status = "ok"
        /\ k <= Len(g.comments)
        /\ Len(h.comments) = Len(g.comments)
        /\ ReactionNew(last.emoji) \in DOMAIN h.comments[k].reactions
        /\ h.comments[k].reactions[ReactionNew(last.emoji)] = 1
        /\ \A j \in 1..Len(g.comments) : j # k => h.comments[j] = g.comments[j]

\* A reaction to the comment behind the description, none on the
\* description.
C6_Witness ==
  /\ Len(log) = 3
  /\ Done("react") /\ OnFull
  /\ last.ix = 1 /\ last.emoji = "y"
  /\ Get(log).status = "ok"
  /\ Len(Get(log).comments) = 2
  /\ DOMAIN HeadReactions(Get(log)) = {}
  /\ DOMAIN Get(log).comments[2].reactions = {ReactionNew("y")}
  /\ Get(log).comments[2].reactions[ReactionNew("y")] = 1

(* -------------------------------- C7 ---------------------------------- *)
\* C7: replay robustness.  The typed fold of a log gives what the typed
\* fold of its decodable records gives.
C7_ReplayRobust ==
  log # <<>> => Get(log) = Get(SelectSeq(log, Decodes))

\* A record that does not decode between two that do, and the second of
\* them materialized.
C7_Witness ==
  /\ Len(log) = 3
  /\ Decodes(log[1]) /\ ~Decodes(log[2]) /\ IsCommentRecord(log[3])
  /\ Get(log).status = "ok"
  /\ Len(Get(log).comments) = 2

(* -------------------------------- C8 ---------------------------------- *)
\* C8: writers tolerate malformed entries.  On a log that holds a record
\* that does not decode next to valid ones, comment, close, label and react
\* (on a valid index) succeed and append their record.
C8_WritersTolerate ==
  [][\A p \in Peers, body \in Bodies, ls \in LabelSlices, e \in Emojis,
        a \in ActorIds \ UsedActors :
       ( /\ log # <<>>
         /\ ~AllDecode(log)
         /\ Get(log).status = "ok"
         /\ \/ Comment(p, body, a, Full, Retrieved(Full), "none")
            \/ Close(a, Full, Retrieved(Full), "none")
            \/ Label(ls, a, Full, Retrieved(Full), "none")
            \/ React(p, 0, ReactionNew(e), a, Full, Retrieved(Full), "none") )
       => /\ last'.status = "ok"
          /\ Len(log') = Len(log) + 1]_vars

(* -------------------------------- C9 ---------------------------------- *)
\* C9: out-of-range safety.  React with a comment index at or beyond the
\* number of comments returns an error to its caller and appends no record.
C9_OutOfRangeIsError ==
  [][\A p \in Peers, ix \in 0..(Len(log) + 1), e \in Emojis,
        a \in ActorIds \ UsedActors :
       ( /\ log # <<>>
         /\ AllDecode(log)
         /\ Get(log).status = "ok"
         /\ ix >= Len(Get(log).comments)
         /\ React(p, ix, ReactionNew(e), a, Full, Retrieved(Full), "none") )
       => /\ last'.status = "err"
          /\ log' = log]_vars

(* -------------------------------- C10 --------------------------------- *)
\* C10: concurrent append.  A comment record built on any replica of the
\* log, the replica another comment was built on included, is merged: the
\* materialized issue holds the new comment once, with its author and body,
\* behind the description, and every comment it held before, unchanged and
\* in the same order.
C10_ConcurrentAppend ==
  Done("comment") =>
    LET g == Get(Pre)
        h == Get(log)
    IN  /\ g.status = "ok"
        /\ h.status = "ok"
        /\ \E k \in 2..Len(h.comments) :
             /\ h.comments[k] =
                  [author |-> last.peer, body |-> last.body, reactions |-> <<>>]
             /\ RemoveAt(h.comments, k) = g.comments

\* Two comments built on the same state, the one submitted last in front
\* of the other.
C10_Witness ==
  /\ Len(log) = 3
  /\ Done("comment")
  /\ last.base = {1}
  /\ IsCommentRecord(log[2])
  /\ log[2].change.deps = log[3].change.deps
  /\ Get(log).status = "ok"
  /\ Len(Get(log).comments) = 3
  /\ CommentRecordBody(log[2]) = "b1" /\ last.body = "b2"
  /\ Get(log).comments[2].body = "b2"
  /\ Get(log).comments[3].body = "b1"

(* -------------------------------- C11 --------------------------------- *)
\* The description a create record carries.
CreateRecordBody(rec) == rec.change.ops[8].val

\* The authors and bodies of a sequence of comments.
Texts(cs) == [i \in 1..Len(cs) |-> [author |-> cs[i].author, body |-> cs[i].body]]

RECURSIVE IsSubSeq(_, _)
\* The elements of s occur in t, in the same order.
IsSubSeq(s, t) ==
  IF s = <<>> THEN TRUE
  ELSE IF t = <<>> THEN FALSE
  ELSE IF Head(s) = Head(t) THEN IsSubSeq(Tail(s), Tail(t))
  ELSE IsSubSeq(s, Tail(t))

\* C11: comments are non-empty and append-only.  In every state after
\* create, get returns an Issue with at least one comment, the first of
\* which is the description given at creation, and every comment that get
\* returned in an earlier state of the object (the log only grows at its
\* end, so the earlier states are its prefixes) is still there, in the same
\* order, with the same author and body.
C11_AppendOnly ==
  log # <<>> =>
    LET h == Get(log)
    IN  /\ h.status = "ok"
        /\ Len(h.comments) >= 1
        /\ h.comments[1].body = CreateRecordBody(log[1])
        /\ \A n \in 1..(Len(log) - 1) :
             /\ Get(SubSeq(log, 1, n)).status = "ok"
             /\ IsSubSeq(Texts(Get(SubSeq(log, 1, n)).comments),
                         Texts(h.comments))

\* A reaction to a comment: the comment keeps its author and body, its
\* reactions change.
C11_Witness ==
  /\ Len(log) = 3
  /\ IsCommentRecord(log[2])
  /\ Done("react") /\ OnFull /\ last.ix = 1
  /\ Get(log).status = "ok"
  /\ Get(log).comments[1].body = CreateRecordBody(log[1])
  /\ Texts(Get(log).comments) = Texts(Get(Pre).comments)
  /\ DOMAIN Get(Pre).comments[2].reactions = {}
  /\ DOMAIN Get(log).comments[2].reactions # {}

(* -------------------------------- C12 --------------------------------- *)
\* The document the typed fold of get builds from the records.
Materialized(records) == TypedFold(NewDoc, records, 1)

Lacks(doc, obj, key) == Visible(doc, obj, key) = {}

\* A document that lacks the issue object, one of its five fields, a
\* comment, a field of a comment, or whose state is no "open" or "closed".
Partial(doc) ==
  \/ Lacks(doc, ROOT, "issue")
  \/ LET issue == DocGet(doc, ROOT, "issue").id
     IN  \/ \E k \in {"title", "author", "state", "comments", "labels"} :
              Lacks(doc, issue, k)
         \/ LET st == DocGet(doc, issue, "state")
            IN  ~(st.kind = "scalar" /\ st.val \in {"open", "closed"})
         \/ LET cs == ListSeq(doc, DocGet(doc, issue, "comments").id)
            IN  \/ cs = <<>>
                \/ \E i \in 1..Len(cs) :
                     \E k \in {"author", "body", "reactions"} :
                       Lacks(doc, cs[i], k)

\* C12: the read projection never returns a partially populated Issue.
\* Whenever the materialized document lacks the issue object, one of title,
\* author, state, comments, labels, a field of a comment, a valid state
\* string or every comment, Issues::get fails; a get that returned
\* Some(Issue) read a document that lacks none of them.
C12_NeverPartial ==
  /\ (log # <<>> /\ Partial(Materialized(log))) => Get(log).status = "panic"
  /\ (Done("get") /\ last.ret.kind = "some") =>
       ~Partial(Materialized(SubLog(log, last.base, 1)))

\* A document that has everything but the reactions of its one comment.
C12_Witness ==
  /\ Len(log) = 1 /\ Decodes(log[1])
  /\ LET doc == Materialized(log)
         issue == DocGet(doc, ROOT, "issue")
     IN  /\ issue.found
         /\ \A k \in {"title", "author", "state", "comments", "labels"} :
              ~Lacks(doc, issue.id, k)
         /\ DocGet(doc, issue.id, "state").val = "open"
         /\ LET cs == ListSeq(doc, DocGet(doc, issue.id, "comments").id)
            IN  /\ Len(cs) = 1
                /\ ~Lacks(doc, cs[1], "author") /\ ~Lacks(doc, cs[1], "body")
                /\ Lacks(doc, cs[1], "reactions")
  /\ Get(log).status = "panic"

(* -------------------------------- C13 --------------------------------- *)
\* The authors stored under a symbol of the reactions of the description.
HeadReactors(doc, key) ==
  LET issue == DocGet(doc, ROOT, "issue").id
      head == ListSeq(doc, DocGet(doc, issue, "comments").id)[1]
      reactions == DocGet(doc, head, "reactions").id
  IN  DocKeys(doc, DocGet(doc, reactions, key).id)

\* C13: reaction count semantics.  For every comment and every symbol in
\* its reactions the count get reports is exactly 1, whoever reacted and
\* how often; a react call adds its symbol to the entries of one comment if
\* it is not among them and changes nothing else, so the entries of a
\* comment are the distinct symbols used on it.
C13_CountIsOne ==
  /\ log # <<>> =>
       LET h == Get(log)
       IN  /\ h.status = "ok"
           /\ \A i \in 1..Len(h.comments) :
                \A r \in DOMAIN h.comments[i].reactions :
                  h.comments[i].reactions[r] = 1
  /\ Done("react") =>
       LET g == Get(Pre)
           h == Get(log)
       IN  /\ Len(h.comments) = Len(g.comments)
           /\ \E k \in 1..Len(h.comments) :
                /\ DOMAIN h.comments[k].reactions =
                     DOMAIN g.comments[k].reactions \cup {ReactionNew(last.emoji)}
                /\ \A j \in 1..Len(h.comments) :
                     j # k => h.comments[j] = g.comments[j]

\* Two authors reacted to the description with the same symbol: both are
\* stored, the count is 1.
C13_Witness ==
  /\ Len(log) = 3
  /\ Done("react") /\ OnFull /\ last.ix = 0 /\ last.emoji = "x"
  /\ DOMAIN HeadReactions(Get(Pre)) = {ReactionNew("x")}
  /\ HeadReactors(Materialized(log), "x") = {EncodeId("alice"), EncodeId("bob")}
  /\ DOMAIN HeadReactions(Get(log)) = {ReactionNew("x")}
  /\ HeadReactions(Get(log))[ReactionNew("x")] = 1

(* -------------------------------- C14 --------------------------------- *)
\* C14: Issues::get on an object the store does not know returns Ok(None):
\* no error, and the store is left as it was.
C14_UnknownIsNone ==
  [][(log = <<>> /\ last'.op = "get" /\ last'.fault = "none") =>
       /\ last'.status = "ok"
       /\ last'.ret = [kind |-> "none"]
       /\ log' = log]_vars

\* A get that the store served before any object was created.
C14_Witness ==
  /\ log = <<>>
  /\ Done("get")
  /\ last.fault = "none"
  /\ last.ret.kind = "none"

(* -------------------------------- C15 --------------------------------- *)
\* C15: store-layer error classification.  A failure of the store's create
\* surfaces from Issues::create as Error::Create, a failure of the store's
\* retrieve surfaces from get, get_raw, comment, close, label and react as
\* Error::Retrieve; the error is returned as a value and no record is
\* created or appended.
C15_StoreErrors ==
  [][/\ last'.fault = "create" =>
          /\ last'.op = "create"
          /\ last'.status = "err" /\ last'.error = "Create"
          /\ log' = log
     /\ last'.fault = "retrieve" =>
          /\ last'.op \in {"get", "get_raw"} \cup Writers
          /\ last'.status = "err" /\ last'.error = "Retrieve"
          /\ log' = log]_vars

\* The store failed the retrieve of a react call on an issue it holds.
C15_Witness ==
  /\ Len(log) = 1
  /\ Get(log).status = "ok"
  /\ last.op = "react"
  /\ last.fault = "retrieve"
  /\ last.status = "err" /\ last.error = "Retrieve"

(* -------------------------------- C16 --------------------------------- *)
\* C16: when the store fails an update, comment, close, label and react
\* return an Err to their caller, and the log is unchanged.
C16_UpdateFailureIsErr ==
  [][last'.fault = "update" =>
       /\ last'.op \in Writers
       /\ last'.status = "err"
       /\ log' = log]_vars

(* -------------------------------- C17 --------------------------------- *)
\* C17: every successful comment, close, label and react returns the id
\* the store gave to the record the call appended.
C17_ReturnsRevision ==
  (last.op \in Writers /\ last.status = "ok") => last.ret = Revision(Len(log))

(* -------------------------------- C18 --------------------------------- *)
\* The value stored as the state of the issue of a document.
StoredState(doc) ==
  DocGet(doc, DocGet(doc, ROOT, "issue").id, "state")

\* C18: state encoding round trip.  Open is stored as "open" and Closed as
\* "closed", decoding what was stored gives the State back, and decoding
\* any other string or a value that is no string is an error: get returns
\* an Issue only for a stored "open" or "closed", with that State.
C18_StateRoundTrip ==
  /\ StateToScalar("Open") = "open"
  /\ StateToScalar("Closed") = "closed"
  /\ \A st \in {"Open", "Closed"} :
       StateFromValue([kind |-> "scalar", val |-> StateToScalar(st)]) = st
  /\ \A v \in StateValues :
       (v.kind # "scalar" \/ v.val \notin {"open", "closed"}) =>
         StateFromValue(v) = "err"
  /\ (log # <<>> /\ Get(log).status = "ok") =>
       LET v == StoredState(Materialized(log))
       IN  /\ v.kind = "scalar"
           /\ v.val \in {"open", "closed"}
           /\ StateToScalar(Get(log).state) = v.val
  /\ (Done("close") /\ Get(log).status = "ok") => Get(log).state = "Closed"

\* A document that is complete but for its state, stored as "Open": no
\* State decodes from it and get fails.
C18_Witness ==
  /\ Len(log) = 1 /\ Decodes(log[1])
  /\ OtherCreate(1, "alice", "t1", "b1", {},
                 [kind |-> "scalar", val |-> "Open"]).change = log[1].change
  /\ StoredState(Materialized(log)).val = "Open"
  /\ StateFromValue(StoredState(Materialized(log))) = "err"
  /\ Get(log).status = "panic"

(* -------------------------------- C19 --------------------------------- *)
\* The keys of the reactions of the description of a document.
HeadReactionKeys(doc) ==
  LET issue == DocGet(doc, ROOT, "issue").id
      head == ListSeq(doc, DocGet(doc, issue, "comments").id)[1]
  IN  DocKeys(doc, DocGet(doc, head, "reactions").id)

\* C19: reaction parsing.  Reaction::from_str gives the Reaction of a
\* string of one character and an error for the empty string and for two
\* characters; the key react writes for a Reaction decodes into the same
\* Reaction, so after a react call get finds the Reaction on a comment, and
\* a document with a key that is not one character makes get fail.
C19_ReactionParse ==
  /\ ReactionFromStr("x") = [ok |-> TRUE, val |-> ReactionNew("x")]
  /\ ~ReactionFromStr("").ok
  /\ ~ReactionFromStr("xy").ok
  /\ \A e \in Emojis :
       ReactionFromStr(EmojiToString(ReactionNew(e))) =
         [ok |-> TRUE, val |-> ReactionNew(e)]
  /\ (Done("react") /\ Get(Pre).status = "ok") =>
       /\ Get(log).status = "ok"
       /\ \E k \in 1..Len(Get(log).comments) :
            ReactionNew(last.emoji) \in DOMAIN Get(log).comments[k].reactions
  /\ (log # <<>> /\ Get(log).status = "ok") =>
       \A key \in HeadReactionKeys(Materialized(log)) :
         /\ Len(key) = 1
         /\ ReactionNew(key) \in DOMAIN HeadReactions(Get(log))

\* Another program stored a key of two characters on the description: the
\* issue that get returned before can no longer be read.
C19_Witness ==
  /\ Len(log) = 2
  /\ last.op = "other"
  /\ Get(Pre).status = "ok"
  /\ "xy" \in HeadReactionKeys(Materialized(log))
  /\ Get(log).status = "panic"

(* -------------------------------- C20 --------------------------------- *)
\* C20: the typed fold and the raw fold agree.  For every log of records
\* that the service wrote, and every replica of it, the document get_raw
\* loads from the concatenated bytes projects to the Issue that get
\* returns: the same title, author, state, comments and labels.
C20_FoldsAgree ==
  \A b \in Views :
    LET records == SubLog(log, b, 1)
    IN  (records # <<>> /\ AllDecode(records)) =>
          /\ RawFold(records).status = "ok"
          /\ IssueTryFrom(RawFold(records).doc) = Get(records)

\* Three records of the service, the last two written side by side, and
\* both folds see three comments.
C20_Witness ==
  /\ Len(log) = 3
  /\ AllDecode(log)
  /\ Concurrent(log[2], log[3])
  /\ RawFold(log).status = "ok"
  /\ IssueTryFrom(RawFold(log).doc).status = "ok"
  /\ Len(IssueTryFrom(RawFold(log).doc).comments) = 3
  /\ IssueTryFrom(RawFold(log).doc) = Get(log)

(* -------------------------------- C21 --------------------------------- *)
\* C21: log growth.  A successful create leaves a log of exactly one
\* record where there was none; a successful comment, close, label or
\* react appends exactly one record and leaves the earlier ones as they
\* were; get, get_raw and every call that failed leave the log unchanged.
C21_LogGrowth ==
  [][/\ (last'.op = "create" /\ last'.status = "ok") =>
          (log = <<>> /\ Len(log') = 1)
     /\ (last'.op \in Writers /\ last'.status = "ok") =>
          /\ Len(log') = Len(log) + 1
          /\ SubSeq(log', 1, Len(log)) = log
          /\ Decodes(log'[Len(log')])
     /\ (last'.op \in {"get", "get_raw"}) => log' = log
     /\ (last'.op \in {"create", "get", "get_raw"} \cup Writers
           /\ last'.status # "ok") => log' = log]_vars

\* A comment appended behind the create record, which is as it was.
C21_Witness ==
  /\ Len(log) = 2
  /\ Done("comment") /\ OnFull
  /\ IsCommentRecord(log[2])
  /\ Get(Pre).status = "ok" /\ Len(Get(Pre).comments) = 1
  /\ Get(log).status = "ok" /\ Len(Get(log).comments) = 2

(* -------------------------------- C22 --------------------------------- *)
\* The element ids of the comments of a document, in list order.
CommentIds(doc) ==
  ListSeq(doc, DocGet(doc, DocGet(doc, ROOT, "issue").id, "comments").id)

\* C22: a reaction stays on the comment it was built for.  A react record
\* built against index i of the builder's replica puts its symbol, in every
\* merge of the record with records the builder had not seen, on the
\* comment that was at index i for the builder (same author, same body) and
\* leaves every other comment as it is without the record, whatever the
\* index of the comment in the merge.
C22_ReactionStays ==
  Done("react") =>
    LET built == SubLog(log, last.base, 1)
        target == CommentIds(Materialized(built))[last.ix + 1]
    IN  \A v \in Views :
          Len(log) \in v =>
            LET without == Get(SubLog(log, v \ {Len(log)}, 1))
                merged == Get(SubLog(log, v, 1))
                k == IndexOf(CommentIds(Materialized(SubLog(log, v, 1))), target)
            IN  /\ without.status = "ok"
                /\ merged.status = "ok"
                /\ Len(merged.comments) = Len(without.comments)
                /\ Texts(merged.comments)[k] =
                     Texts(Get(built).comments)[last.ix + 1]
                /\ ReactionNew(last.emoji) \in DOMAIN merged.comments[k].reactions
                /\ \A j \in 1..Len(merged.comments) :
                     j # k => merged.comments[j] = without.comments[j]

\* bob reacted to alice's comment at index 1 of his replica; the merge
\* holds a comment of bob's that was written side by side with alice's and
\* stands in front of it: the symbol is on alice's comment, now at index 2.
C22_Witness ==
  /\ Len(log) = 4
  /\ Done("react") /\ last.base = {1, 2} /\ last.ix = 1
  /\ IsCommentRecord(log[2]) /\ IsCommentRecord(log[3])
  /\ Concurrent(log[2], log[3])
  /\ Texts(Get(SubLog(log, {1, 2}, 1)).comments)[2] =
       [author |-> "alice", body |-> "b2"]
  /\ Get(log).status = "ok"
  /\ Texts(Get(log).comments)[2] = [author |-> "bob", body |-> "b2"]
  /\ Texts(Get(log).comments)[3] = [author |-> "alice", body |-> "b2"]
  /\ DOMAIN Get(log).comments[2].reactions = {}
  /\ DOMAIN Get(log).comments[3].reactions = {ReactionNew("x")}

(* -------------------------------- C23 --------------------------------- *)
\* C23: the state only moves from Open to Closed.  When get reports Closed
\* on the records a replica holds, get reports Closed on every replica that
\* holds these records and any further ones, in whatever order the records
\* are merged.
C23_ClosedStays ==
  \A v \in Views : \A w \in Views :
    (log # <<>> /\ v \subseteq w /\ Get(SubLog(log, v, 1)).status = "ok"
       /\ Get(SubLog(log, v, 1)).state = "Closed") =>
      \A f \in Perms(Cardinality(w)) :
        LET later == Get(Permuted(SubLog(log, w, 1), f))
        IN  later.status = "ok" /\ later.state = "Closed"

\* A comment on a closed issue: Open after create, Closed after close and
\* Closed with the comment.
C23_Witness ==
  /\ Len(log) = 3
  /\ Done("comment") /\ OnFull
  /\ AllDecode(log)
  /\ Get(SubSeq(log, 1, 1)).state = "Open"
  /\ Get(Pre).state = "Closed"
  /\ Len(Get(Pre).comments) = 1
  /\ Get(log).state = "Closed"
  /\ Len(Get(log).comments) = 2

(* -------------------------------- C24 --------------------------------- *)
\* C24: each mutation changes only its own part of the issue.  Between
\* the issue get returned before a successful call and the one it returns
\* after: comment leaves title, author, state, labels and every comment
\* there was, with its reactions, as they were; close leaves title, author,
\* comments and labels; label leaves title, author, state and comments and
\* removes no label; react leaves title, author, state, labels and the
\* author and body of every comment.
C24_OwnPartOnly ==
  (last.op \in Writers /\ last.status = "ok") =>
    LET g == Get(Pre)
        h == Get(log)
    IN  /\ g.status = "ok"
        /\ h.status = "ok"
        /\ h.title = g.title
        /\ h.author = g.author
        /\ last.op # "close" => h.state = g.state
        /\ last.op # "label" => h.labels = g.labels
        /\ last.op = "label" => g.labels \subseteq h.labels
        /\ last.op \in {"close", "label"} => h.comments = g.comments
        /\ last.op = "react" => Texts(h.comments) = Texts(g.comments)
        /\ last.op = "comment" =>
             \E k \in 1..Len(h.comments) : RemoveAt(h.comments, k) = g.comments

\* A close of an open issue that carries the label "bug": the state is the
\* one thing that changed.
C24_Witness ==
  /\ Len(log) = 3
  /\ Done("close") /\ OnFull
  /\ AllDecode(log)
  /\ Get(Pre).labels = {"bug"} /\ Get(Pre).state = "Open"
  /\ Get(log).labels = {"bug"} /\ Get(log).state = "Closed"
  /\ Get(log).comments = Get(Pre).comments
  /\ Get(log).title = Get(Pre).title

(* -------------------------------- C25 --------------------------------- *)
\* The reactions map of a comment of a document.
ReactionsOf(doc, commentId) == DocGet(doc, commentId, "reactions").id

\* The flag an author has in the nested map under a symbol is true.
Flagged(doc, nested, author) ==
  LET flag == DocGet(doc, nested, author)
  IN  flag.found /\ flag.kind = "scalar" /\ flag.val = "true"

\* C25: react keeps earlier reactors.  A react built on a state that
\* reflects every earlier record leaves, for every comment and every symbol
\* the document held, the nested map under the symbol in place (the same
\* object) with the true flag of every author it held, and the nested map
\* under its own symbol on its comment holds a true flag keyed by the
\* reacting author; so every (comment, symbol, author) of a sequence of
\* such reacts keeps its flag.
C25_KeepsReactors ==
  (Done("react") /\ OnFull /\ AllDecode(Pre)) =>
    LET before == Materialized(Pre)
        after == Materialized(log)
        ids == CommentIds(before)
        target == ids[last.ix + 1]
    IN  /\ CommentIds(after) = ids
        /\ \A i \in 1..Len(ids) :
             LET rb == ReactionsOf(before, ids[i])
             IN  /\ ReactionsOf(after, ids[i]) = rb
                 /\ \A key \in DocKeys(before, rb) :
                      LET nested == DocGet(before, rb, key).id
                      IN  /\ DocGet(after, rb, key).id = nested
                          /\ \A author \in DocKeys(before, nested) :
                               Flagged(after, nested, author)
        /\ LET rs == ReactionsOf(after, target)
           IN  /\ last.emoji \in DocKeys(after, rs)
               /\ Flagged(after, DocGet(after, rs, last.emoji).id,
                          EncodeId(last.peer))

\* bob reacted to the description with the symbol alice had used on it:
\* the nested map is the one alice's react made and holds both flags.
C25_Witness ==
  /\ Len(log) = 3
  /\ Done("react") /\ OnFull /\ last.ix = 0
  /\ last.emoji = "y" /\ last.peer = "bob"
  /\ AllDecode(log)
  /\ LET before == Materialized(Pre)
         after == Materialized(log)
         rs == ReactionsOf(before, CommentIds(before)[1])
     IN  /\ DocKeys(before, rs) = {"y"}
         /\ DocKeys(before, DocGet(before, rs, "y").id) = {EncodeId("alice")}
         /\ DocGet(after, rs, "y").id = DocGet(before, rs, "y").id
         /\ DocKeys(after, DocGet(after, rs, "y").id) =
              {EncodeId("alice"), EncodeId("bob")}
         /\ Flagged(after, DocGet(after, rs, "y").id, EncodeId("alice"))
         /\ Flagged(after, DocGet(after, rs, "y").id, EncodeId("bob"))

(* -------------------------------- C26 --------------------------------- *)
\* C26: a mutation on an unknown object fails.  When the store's retrieve
\* returns None to comment, close, label or react, the call fails (the
\* unwrap of get_raw's None panics), and it submits nothing: the store
\* holds no object afterwards, as before.
C26_UnknownFails ==
  [][(log = <<>> /\ last'.op \in Writers /\ last'.fault # "retrieve") =>
       /\ last'.status \in {"err", "panic"}
       /\ last'.ret = Unit
       /\ log' = <<>>]_vars

\* A close called before any issue was created.
C26_Witness ==
  /\ log = <<>>
  /\ last.op = "close"
  /\ last.fault = "none"
  /\ last.status = "panic"

(* -------------------------------- C27 --------------------------------- *)
\* C27: patch::state reports Merged exactly when the merge base of HEAD
\* and the commit of the patch exists and is that commit, which is when the
\* commit is HEAD's or an ancestor of it; it reports Open when the merge
\* base is another commit, when there is none, when the computation fails
\* and when HEAD cannot be read.  The call always returns a State.
C27_PatchState ==
  last.op = "state" =>
    LET repo == last.repo
        commit == last.commit
    IN  /\ last.status = "ok"
        /\ last.ret.kind \in {"Merged", "Open"}
        /\ last.ret.kind = "Merged" <=>
             (last.base.ok /\ last.base.some /\ last.base.oid = commit)
        /\ last.ret.kind = "Merged" <=>
             /\ repo.head.ok
             /\ commit \in DOMAIN repo.parents
             /\ commit \in Ancestors(repo, repo.head.target)
        /\ (~repo.head.ok \/ commit \notin DOMAIN repo.parents) =>
             last.ret.kind = "Open"
        /\ (repo.head.ok /\ commit \in DOMAIN repo.parents
              /\ Ancestors(repo, repo.head.target) \cap Ancestors(repo, commit) = {})
             => last.ret.kind = "Open"

\* HEAD is a merge commit and the commit of the patch one of the two
\* commits it merged: the merge base is the commit of the patch.
C27_Witness ==
  /\ last.op = "state"
  /\ last.repo.head.ok
  /\ Cardinality(last.repo.parents[last.repo.head.target]) = 2
  /\ last.commit \in last.repo.parents[last.repo.head.target]
  /\ last.base = SomeBase(last.commit)
  /\ last.ret.kind = "Merged"

=============================================================================
